---- MODULE Spec2Model ----
(***************************************************************************)
(* Model of the conversation controller SalesRAGAgent                      *)
(* (src/sales_rag_agent.py) with the structured-query tool                 *)
(* (src/sql_agent_tool.py).  Text is modelled as TLA+ strings, on which    *)
(* Len, SubSeq and \o act character by character, so the string functions  *)
(* of the code are computed the way Python computes them.                  *)
(*                                                                         *)
(* Non-ASCII characters of the source's literals are written in ASCII:     *)
(* the check mark of line 147 as "[ok]", the cross of line 149 as "[x]",   *)
(* the warning sign of line 154 as "[!]" and the typographic apostrophe    *)
(* of line 137 as "'".                                                     *)
(***************************************************************************)
EXTENDS Integers, Sequences, FiniteSets, TLC

(***************************************************************************)
(* Python's str operations used by the controller.                         *)
(***************************************************************************)
\* s[i-1:j] of Python (1-based, both ends included, clamped to the string)
Slice(s, i, j) ==
    LET lo == IF i < 1 THEN 1 ELSE i
        hi == IF j > Len(s) THEN Len(s) ELSE j
    IN  IF lo > hi THEN "" ELSE SubSeq(s, lo, hi)

Char(s, i) == Slice(s, i, i)

UpperAlpha == "ABCDEFGHIJKLMNOPQRSTUVWXYZ"

LowerAlpha == "abcdefghijklmnopqrstuvwxyz"

Digits == {"0", "1", "2", "3", "4", "5", "6", "7", "8", "9"}

Whitespace == {" ", "\t", "\n", "\r"}

LowerChar(c) ==
    IF \E i \in 1..26 : Char(UpperAlpha, i) = c
    THEN Char(LowerAlpha, CHOOSE i \in 1..26 : Char(UpperAlpha, i) = c)
    ELSE c

RECURSIVE lower(_)
lower(s) ==
    IF s = "" THEN "" ELSE LowerChar(Char(s, 1)) \o lower(Slice(s, 2, Len(s)))

RECURSIVE lstrip(_)
lstrip(s) ==
    IF s # "" /\ Char(s, 1) \in Whitespace THEN lstrip(Slice(s, 2, Len(s))) ELSE s

RECURSIVE rstrip(_)
rstrip(s) ==
    IF s # "" /\ Char(s, Len(s)) \in Whitespace
    THEN rstrip(Slice(s, 1, Len(s) - 1))
    ELSE s

strip(s) == rstrip(lstrip(s))

\* s.replace(c, "") for a one-character c
RECURSIVE remove(_, _)
remove(s, c) ==
    IF s = "" THEN ""
    ELSE (IF Char(s, 1) = c THEN "" ELSE Char(s, 1)) \o remove(Slice(s, 2, Len(s)), c)

\* sub in s
In(sub, s) ==
    \E i \in 1..(Len(s) - Len(sub) + 1) : Slice(s, i, i + Len(sub) - 1) = sub

isdigit(s) == s # "" /\ \A i \in 1..Len(s) : Char(s, i) \in Digits

\* s.zfill(2) of a string without sign
zfill2_NoPad(s) == s

zfill2(s) == IF Len(s) >= 2 THEN s ELSE IF Len(s) = 1 THEN "0" \o s ELSE "00"

\* s.split(":"), for a string that holds at least one ":"
RECURSIVE split(_)
split(s) ==
    IF ~In(":", s) THEN <<s>>
    ELSE LET i == CHOOSE k \in 1..Len(s) :
                      Char(s, k) = ":" /\ \A j \in 1..(k - 1) : Char(s, j) # ":"
         IN  <<Slice(s, 1, i - 1)>> \o split(Slice(s, i + 1, Len(s)))

\* sep.join(parts)
RECURSIVE join(_, _)
join(sep, parts) ==
    IF parts = <<>> THEN ""
    ELSE IF Len(parts) = 1 THEN parts[1]
    ELSE parts[1] \o sep \o join(sep, Tail(parts))

(***************************************************************************)
(* Optional values: None, or one value.                                    *)
(***************************************************************************)
None == {}

Some(x) == {x}

The(o) == CHOOSE x \in o : TRUE

(***************************************************************************)
(* SalesRAGAgent._normalize_time                                           *)
(***************************************************************************)
CleanTime(message) ==
    remove(remove(remove(remove(lower(strip(message)), "\""), "'"), " "), ".")

_normalize_time(message) ==
    LET parsed_time == CleanTime(message) IN
    IF isdigit(parsed_time)
    THEN IF Len(parsed_time) <= 2 THEN zfill2(parsed_time) \o ":00"
         ELSE IF Len(parsed_time) = 3
              THEN "0" \o Char(parsed_time, 1) \o ":" \o Slice(parsed_time, 2, 3)
         ELSE IF Len(parsed_time) = 4
              THEN Slice(parsed_time, 1, 2) \o ":" \o Slice(parsed_time, 3, 4)
         ELSE parsed_time
    ELSE IF In(":", parsed_time)
    THEN LET parts == split(parsed_time) IN
         IF Len(parts) = 2 /\ \A i \in 1..2 : isdigit(parts[i])
         THEN zfill2(parts[1]) \o ":" \o zfill2(parts[2])
         ELSE parsed_time
    ELSE parsed_time

(***************************************************************************)
(* is_contact_info, the local function of process.  Its two patterns are   *)
(* raw strings with doubled backslashes, so the regular expressions they   *)
(* denote are:                                                             *)
(*   phone_pattern  \\b\\d{10,}\\b   a backslash, "b", a backslash, ten or *)
(*                  more letters "d", a backslash, "b";                    *)
(*   email_pattern  [\\w\\.-]+@[\\w\\.-]+   "@" between two characters of  *)
(*                  the class { backslash, "w", ".", "-" }.                *)
(***************************************************************************)
MinPhoneRun == 10

phone_search(msg) ==
    \E i \in 1..Len(msg) : \E k \in MinPhoneRun..Len(msg) :
        /\ Slice(msg, i, i + 2) = "\\b\\"
        /\ i + 2 + k + 2 <= Len(msg)
        /\ \A j \in (i + 3)..(i + 2 + k) : Char(msg, j) = "d"
        /\ Slice(msg, i + 3 + k, i + 4 + k) = "\\b"

EmailClass == {"\\", "w", ".", "-"}

email_search(msg) ==
    \E i \in 1..(Len(msg) - 2) :
        /\ Char(msg, i) \in EmailClass
        /\ Char(msg, i + 1) = "@"
        /\ Char(msg, i + 2) \in EmailClass

name_keywords == <<"name is", "i am", "i'm", "this is">>

is_contact_info(msg) ==
    LET msg_lower == lower(msg) IN
    IF phone_search(msg) \/ email_search(msg) THEN TRUE
    ELSE IF \E i \in 1..Len(name_keywords) : In(name_keywords[i], msg_lower) THEN TRUE
    ELSE FALSE

(***************************************************************************)
(* LeadState (module lead_state) and the required lead fields.             *)
(***************************************************************************)
NO_INTEREST == "NO_INTEREST"

INTEREST_DETECTED == "INTEREST_DETECTED"

COLLECTING_INFO == "COLLECTING_INFO"

INFO_COMPLETE == "INFO_COMPLETE"

AWAITING_MEETING_CONFIRMATION == "AWAITING_MEETING_CONFIRMATION"

WAITING_MEETING_SLOT_SELECTION == "WAITING_MEETING_SLOT_SELECTION"

LeadState ==
    {NO_INTEREST, INTEREST_DETECTED, COLLECTING_INFO, INFO_COMPLETE,
     AWAITING_MEETING_CONFIRMATION, WAITING_MEETING_SLOT_SELECTION}

Fields == <<"name", "phone", "email">>

FieldSet == {Fields[i] : i \in 1..Len(Fields)}

FieldValue(f) ==
    IF f = "name" THEN "John" ELSE IF f = "phone" THEN "1234567890" ELSE "a@b.com"

(***************************************************************************)
(* Texts of the controller.                                                *)
(***************************************************************************)
Sentinel == "Sorry, I can only answer questions"

SavedText ==
    "Great! I've saved your information.\nDo you want to schedule a meeting with our team? (Yes/No)"

TroubleText ==
    "Sorry, I had trouble saving your information. Would you mind trying again?"

NoSlotsText == "Sorry, I couldn't fetch available meeting slots right now."

DeclinedText == "No problem! Let me know if you have any other questions."

ThanksText == "Thanks!"

Affirmatives ==
    {"yes", "yeah", "y", "sure", "please", "schedule", "schedule meeting",
     "schedul", "scedul", "shedule", "sedul"}

JustNeed(missing) == "Just need your " \o join(", ", missing) \o " to get started."

CouldYouShare(missing) == "Could you share your " \o join(", ", missing) \o "?"

SlotsText(formatted) ==
    "Here are the available meeting slots for today:\n" \o formatted \o "\nPlease pick one."

ScheduledText(slot) ==
    "[ok] Your meeting has been scheduled at " \o slot \o ". Our team will contact you soon!"

ScheduleFailedText(slot) ==
    "[x] Something went wrong while scheduling your meeting at " \o slot \o ". Please try again."

InvalidTimeText(message, slots) ==
    "[!] '" \o message \o "' is not a valid time. Please choose from: " \o join(", ", slots)

HistoryCap == 30

FallbackWindow == 6

\* seq[-n:]
LastN(seq, n) ==
    IF Len(seq) <= n THEN seq ELSE SubSeq(seq, Len(seq) - n + 1, Len(seq))

(***************************************************************************)
(* The environment of one session: the messages its user sends, what the   *)
(* collaborators may answer, whether they may fail by throwing, and how    *)
(* many messages the session lasts.  It is fixed when the session starts.  *)
(***************************************************************************)
BrowseCalls == 2

LeadCalls == 3

MeetCalls == 4

HistCalls == 16

TimeCalls == 3

ErrText == "service unavailable"

SqlAnswer == "We have 2 studios in Business Bay under 1M: BB-101 and BB-204."

DocAnswer == "Emaar is a real estate developer based in Dubai."

OutOfDomainAnswer == "Sorry, I can only answer questions related to Emaar."

ChatAnswer == "Hello! Feel free to ask me about Emaar properties."

SlotOffer == <<"09:00", "10:00">>

NoFields == {{}}

BrowseWorld ==
    [name |-> "browse", calls |-> BrowseCalls, faulty |-> TRUE,
     msgs |-> {"what studios are available in Business Bay under 1M?", "hi"},
     raw |-> {" SQL\n", "rag", "rag or sql", ""},
     docs |-> {DocAnswer, OutOfDomainAnswer},
     interest |-> {FALSE}, grabs |-> NoFields,
     eager |-> {TRUE}, ids |-> {None}, offers |-> {<<>>}, sched |-> {FALSE},
     table |-> "present"]

LeadWorld ==
    [name |-> "lead", calls |-> LeadCalls, faulty |-> FALSE,
     msgs |-> {"my email is a@b.com", "call 1234567890", "My Name is John",
               "I like blue", "path C:\\@\\tmp"},
     raw |-> {"rag"},
     docs |-> {DocAnswer},
     interest |-> {TRUE}, grabs |-> {{}, {"phone"}, {"name", "email"}},
     eager |-> {TRUE, FALSE},
     ids |-> {None, Some("L1")}, offers |-> {<<>>}, sched |-> {FALSE},
     table |-> "present"]

MeetWorld ==
    [name |-> "meet", calls |-> MeetCalls, faulty |-> TRUE,
     msgs |-> {" Yes ", "scedul", "no", "9", "10:00"},
     raw |-> {"rag"},
     docs |-> {DocAnswer},
     interest |-> {TRUE}, grabs |-> {FieldSet},
     eager |-> {TRUE},
     ids |-> {Some("L1")}, offers |-> {<<>>, SlotOffer}, sched |-> {TRUE, FALSE},
     table |-> "present"]

LongWorld ==
    [name |-> "long", calls |-> HistCalls, faulty |-> FALSE,
     msgs |-> {"9", "yes"},
     raw |-> {"rag"},
     docs |-> {DocAnswer},
     interest |-> {TRUE}, grabs |-> {FieldSet},
     eager |-> {TRUE},
     ids |-> {Some("L2")}, offers |-> {SlotOffer}, sched |-> {TRUE},
     table |-> "present"]

ChatWorld ==
    [name |-> "chat", calls |-> HistCalls, faulty |-> FALSE,
     msgs |-> {"hi"},
     raw |-> {"rag"},
     docs |-> {OutOfDomainAnswer},
     interest |-> {FALSE}, grabs |-> NoFields,
     eager |-> {TRUE}, ids |-> {None}, offers |-> {<<>>}, sched |-> {FALSE},
     table |-> "present"]

TimeWorld ==
    [name |-> "time", calls |-> TimeCalls, faulty |-> FALSE,
     msgs |-> {"yes", "9", "930", "1430", "14:5", "10:00", "\"9.30\"", "9 AM",
               "12345", "1:2:3", "'\t9'"},
     raw |-> {"rag"},
     docs |-> {DocAnswer},
     interest |-> {TRUE}, grabs |-> {FieldSet},
     eager |-> {TRUE},
     ids |-> {Some("L3")}, offers |-> {<<"09:00", "09:30", "14:05">>}, sched |-> {TRUE},
     table |-> "present"]

ShareCalls == 2

ShareWorld ==
    [name |-> "share", calls |-> ShareCalls, faulty |-> FALSE,
     msgs |-> {"any studios under 1M?", "yes"},
     raw |-> {"sql", "rag"},
     docs |-> {DocAnswer},
     interest |-> {FALSE, TRUE}, grabs |-> {FieldSet},
     eager |-> {TRUE},
     ids |-> {Some("L4")}, offers |-> {<<>>}, sched |-> {TRUE},
     table |-> "present"]

Worlds == {BrowseWorld, LeadWorld, MeetWorld, LongWorld, ChatWorld, TimeWorld}

VARIABLES
    lead_state,            \* lead_tool.state
    partial_lead_info,     \* lead_tool.partial_lead_info
    current_lead_id,       \* lead_tool.current_lead_id
    available_slots,       \* meeting_tool.available_slots
    conversation_history,  \* self.conversation_history
    world,                 \* the session's environment
    calls_left,            \* messages the user still sends
    outcome,               \* of the latest process call: "idle", "returned", "raised"
    message,               \* its argument
    state,                 \* its local variable state (line 55)
    entry,                 \* the collaborators' fields when it reached line 55
    tool,                  \* its local variable tool (line 69), "" when not assigned
    response,              \* its local variable response
    result,                \* the dict it returned, if it returned
    trace,                 \* the collaborator calls it made, in order
    agents,                \* st.session_state.agent of each browser session
    properties,            \* the table properties of data/properties.db
    autocommit,            \* whether the installed SQLAlchemy commits the DROP
    actor                  \* the browser session that took the latest step

\* One session on its own.
session_vars ==
    <<lead_state, partial_lead_info, current_lead_id, available_slots,
      conversation_history, world, calls_left, outcome, message, state, entry,
      tool, response, result, trace>>

\* Several sessions of one server process.
shared_vars == <<agents, properties, autocommit, actor>>

vars == <<session_vars, shared_vars>>

(***************************************************************************)
(* Collaborator calls.  A call is recorded with its operation, argument    *)
(* and result; a call that failed by throwing has raised = TRUE.           *)
(***************************************************************************)
Call(op, arg, ret) == [op |-> op, arg |-> arg, ret |-> ret, raised |-> FALSE]

Throw(op, arg) == [op |-> op, arg |-> arg, ret |-> ErrText, raised |-> TRUE]

\* The fields of lead_tool and meeting_tool the controller reads and writes.
Ctx(ls, partial, id, slots) ==
    [lead_state |-> ls, partial |-> partial, lead_id |-> id, slots |-> slots]

\* How a handler ends: with a response, or with an exception passing through it.
Ret(c, resp, tr) ==
    [raised |-> FALSE, response |-> resp, ctx |-> c, trace |-> tr, tool |-> ""]

Raise(c, tr) ==
    [raised |-> TRUE, response |-> "", ctx |-> c, trace |-> tr, tool |-> ""]

(***************************************************************************)
(* LeadTool (module lead_tool) and MeetingTool (module meeting_tool).      *)
(***************************************************************************)
get_missing_fields(partial) == SelectSeq(Fields, LAMBDA f : f \notin DOMAIN partial)

Capture(partial, got) ==
    [f \in (DOMAIN partial) \cup got |->
        IF f \in DOMAIN partial THEN partial[f] ELSE FieldValue(f)]

\* update_state(message, llm): the states and partial infos it may leave.  With
\* every field captured it moves to INFO_COMPLETE at once or on a later message.
update_state(ls, partial, w) ==
    IF ls \notin {NO_INTEREST, INTEREST_DETECTED, COLLECTING_INFO}
    THEN {[lead_state |-> ls, partial |-> partial]}
    ELSE {LET s1 == IF ls = NO_INTEREST /\ interested THEN INTEREST_DETECTED ELSE ls
              p1 == IF s1 = NO_INTEREST THEN partial ELSE Capture(partial, got)
              s2 == IF s1 = NO_INTEREST THEN s1
                    ELSE IF get_missing_fields(p1) = <<>> /\ complete THEN INFO_COMPLETE
                    ELSE IF DOMAIN p1 # {} THEN COLLECTING_INFO
                    ELSE s1
          IN  [lead_state |-> s2, partial |-> p1]
          : interested \in w.interest, got \in w.grabs, complete \in w.eager}

\* create_lead(): the id it returns, or None; it may also fail by throwing.
create_lead(c, w) ==
    {IF id = None
     THEN [raised |-> FALSE, ret |-> None, ctx |-> c]
     ELSE [raised |-> FALSE, ret |-> id,
           ctx |-> Ctx(AWAITING_MEETING_CONFIRMATION, <<>>, id, c.slots)]
     : id \in w.ids}
    \cup (IF w.faulty THEN {[raised |-> TRUE, ret |-> None, ctx |-> c]} ELSE {})

\* get_slots(): the slots it returns and keeps in available_slots.
get_slots(c, w) ==
    {[raised |-> FALSE, ret |-> slots,
      ctx |-> Ctx(c.lead_state, c.partial, c.lead_id, slots)] : slots \in w.offers}
    \cup (IF w.faulty THEN {[raised |-> TRUE, ret |-> <<>>, ctx |-> c]} ELSE {})

format_slots(slots) == join("\n", slots)

\* schedule(lead_id, slot): whether the meeting was booked.
schedule(lead_id, slot, w) ==
    {[raised |-> FALSE, ret |-> ok] : ok \in w.sched}
    \cup (IF w.faulty THEN {[raised |-> TRUE, ret |-> FALSE]} ELSE {})

(***************************************************************************)
(* PDFQATool.answer (module pdf_qa_tool) and the reasoning capability      *)
(* self.llm (langchain's ChatOpenAI).                                      *)
(***************************************************************************)
pdf_answer(arg, w) ==
    {Call("pdf_qa_tool.answer", arg, text) : text \in w.docs}
    \cup (IF w.faulty THEN {Throw("pdf_qa_tool.answer", arg)} ELSE {})

AnswerArg(m, history, c, st) ==
    [message |-> m, history |-> history, lead_info |-> c.partial, state |-> st]

llm_fallback(prompt, w) ==
    {Call("process/llm.invoke", prompt, ChatAnswer)}
    \cup (IF w.faulty THEN {Throw("process/llm.invoke", prompt)} ELSE {})

(***************************************************************************)
(* SQLAgentTool.query: the agent's output, or the text made of the         *)
(* exception the agent threw.  fix_area only rewrites the question handed  *)
(* to the agent, whose invocation is the environment's choice here.  The   *)
(* agent answers from the properties table of data/properties.db; when the *)
(* table is not there its SQL fails, and the output is the exception text  *)
(* or whatever the agent makes of the failure.                             *)
(***************************************************************************)
NoTableAnswers ==
    {"SQL agent error: (sqlite3.OperationalError) no such table: properties",
     "I'm sorry, I couldn't find any property data right now."}

query(question, w) ==
    IF w.table = "present"
    THEN {SqlAnswer} \cup (IF w.faulty THEN {"SQL agent error: " \o ErrText} ELSE {})
    ELSE NoTableAnswers

(***************************************************************************)
(* SalesRAGAgent._decide_tool                                              *)
(***************************************************************************)
DecideSystemPrompt ==
    "You are an expert AI assistant. Decide if the user's question is about property/project/unit data (use SQL agent), "
    \o "or about Emaar properties and its FAQs (use RAG).\n"
    \o "If the question is about property/unit/project info, price, area, stats, or anything in the database, answer 'sql'.\n"
    \o "If about Emaar, answer 'rag'.\n"
    \o "Only answer 'sql' or 'rag'."

DecidePrompt(m) == DecideSystemPrompt \o "\nUser: " \o m \o "\nAnswer:"

Decision_Exact(content) == IF lower(strip(content)) = "sql" THEN "sql" ELSE "rag"

Decision(content) == IF In("sql", lower(strip(content))) THEN "sql" ELSE "rag"

_decide_tool(m, w) ==
    {[raised |-> FALSE, tool |-> Decision(content),
      call |-> Call("_decide_tool/llm.invoke", DecidePrompt(m), content)]
     : content \in w.raw}
    \cup (IF w.faulty
          THEN {[raised |-> TRUE, tool |-> "",
                 call |-> Throw("_decide_tool/llm.invoke", DecidePrompt(m))]}
          ELSE {})

(***************************************************************************)
(* SalesRAGAgent.process: one operator per branch of the chain on state.   *)
(* Each gives the ways the branch may end for message m, the collaborator  *)
(* fields c and the history after the human turn was appended.             *)
(***************************************************************************)
FallbackSystemPrompt ==
    "You are a friendly, conversational sales assistant for Emaar. "
    \o "If the user greets you or starts with small talk (like 'hi', 'hello', 'how are you', etc.), "
    \o "respond warmly and conversationally, and guide them to ask about Emmar properties and FAQs about it. "
    \o "If the user's question is not related to Emaar properties, politely respond: 'Sorry, I can only answer questions related to FSTC pilot training, meetings, or our services. Please ask something related.' "
    \o "Never answer general knowledge or unrelated questions."

FallbackPrompt(m, history) ==
    "\n" \o FallbackSystemPrompt \o "\n\nConversation so far:\n"
    \o join("\n", LastN(history, FallbackWindow))
    \o "\nHuman: " \o m \o "\nAssistant:\"\n"

\* What a handler's ways of ending look like once the classifier has answered.
WithTool(decided, outs) == {[h EXCEPT !.tool = decided] : h \in outs}

SqlBranch_Reworded(m, c, w, decide) ==
    {Ret(c, "Here is what I found: " \o sql_response,
         <<decide, Call("sql_agent_tool.query", m, sql_response)>>)
     : sql_response \in query(m, w)}

\* tool == 'sql' (lines 71-73)
SqlBranch(m, c, w, decide) ==
    {Ret(c, sql_response, <<decide, Call("sql_agent_tool.query", m, sql_response)>>)
     : sql_response \in query(m, w)}

OutOfDomain_Exact(rag_response) == rag_response = Sentinel

\* "Sorry, I can only answer questions" in rag_response (line 76)
OutOfDomain(rag_response) == In(Sentinel, rag_response)

\* the else branch (lines 74-95)
RagBranch(m, c, history, w, decide) ==
    UNION {
        IF a.raised THEN {Raise(c, <<decide, a>>)}
        ELSE IF ~OutOfDomain(a.ret) THEN {Ret(c, a.ret, <<decide, a>>)}
        ELSE {IF f.raised THEN Raise(c, <<decide, a, f>>)
              ELSE Ret(c, f.ret, <<decide, a, f>>)
              : f \in llm_fallback(FallbackPrompt(m, history), w)}
        : a \in pdf_answer(AnswerArg(m, history, c, c.lead_state), w)}

HandleNoInterest(m, c, history, w) ==
    UNION {
        IF d.raised THEN {Raise(c, <<d.call>>)}
        ELSE WithTool(d.tool,
                 IF d.tool = "sql" THEN SqlBranch(m, c, w, d.call)
                 ELSE RagBranch(m, c, history, w, d.call))
        : d \in _decide_tool(m, w)}

ContactReply_OffByOne(missing) ==
    IF Len(missing) > 1 THEN JustNeed(missing) ELSE ThanksText

ContactReply(missing) ==
    IF missing # <<>>
    THEN IF Len(missing) = 1
         THEN "Just need your " \o missing[1] \o " to get started."
         ELSE JustNeed(missing)
    ELSE ThanksText

HandleInterestDetected(m, c, history, w) ==
    LET missing == get_missing_fields(c.partial) IN
    IF is_contact_info(m)
    THEN {Ret(c, ContactReply(missing), <<>>)}
    ELSE {IF a.raised THEN Raise(c, <<a>>)
          ELSE Ret(c, IF missing # <<>> THEN a.ret \o "\n\n" \o CouldYouShare(missing)
                      ELSE a.ret, <<a>>)
          : a \in pdf_answer(AnswerArg(m, history, c, c.lead_state), w)}

HandleCollectingInfo_AlwaysAnswers(m, c, history, w) ==
    LET missing == get_missing_fields(c.partial) IN
    {IF a.raised THEN Raise(c, <<a>>)
     ELSE Ret(c, IF missing # <<>> THEN a.ret \o "\n\n" \o JustNeed(missing)
                 ELSE a.ret, <<a>>)
     : a \in pdf_answer(AnswerArg(m, history, c, c.lead_state), w)}

HandleCollectingInfo(m, c, history, w) ==
    LET missing == get_missing_fields(c.partial) IN
    IF is_contact_info(m)
    THEN {Ret(c, ContactReply(missing), <<>>)}
    ELSE {IF a.raised THEN Raise(c, <<a>>)
          ELSE Ret(c, IF missing # <<>> THEN a.ret \o "\n\n" \o JustNeed(missing)
                      ELSE a.ret, <<a>>)
          : a \in pdf_answer(AnswerArg(m, history, c, c.lead_state), w)}

HandleInfoComplete_Advancing(m, c, history, w) ==
    {IF r.raised THEN Raise(r.ctx, <<Throw("create_lead", <<>>)>>)
     ELSE IF r.ret # None
     THEN Ret(r.ctx, SavedText, <<Call("create_lead", <<>>, r.ret)>>)
     ELSE Ret(Ctx(NO_INTEREST, <<>>, r.ctx.lead_id, r.ctx.slots), TroubleText,
              <<Call("create_lead", <<>>, r.ret)>>)
     : r \in create_lead(c, w)}

HandleInfoComplete_NoQuestion(m, c, history, w) ==
    {IF r.raised THEN Raise(r.ctx, <<Throw("create_lead", <<>>)>>)
     ELSE IF r.ret # None
     THEN Ret(r.ctx, "Great! I've saved your information.",
              <<Call("create_lead", <<>>, r.ret)>>)
     ELSE Ret(r.ctx, TroubleText, <<Call("create_lead", <<>>, r.ret)>>)
     : r \in create_lead(c, w)}

HandleInfoComplete_Retrying(m, c, history, w) ==
    UNION {IF r.raised THEN {Raise(r.ctx, <<Throw("create_lead", <<>>)>>)}
           ELSE IF r.ret # None
           THEN {Ret(r.ctx, SavedText, <<Call("create_lead", <<>>, r.ret)>>)}
           ELSE {IF q.raised
                 THEN Raise(q.ctx, <<Call("create_lead", <<>>, r.ret),
                                     Throw("create_lead", <<>>)>>)
                 ELSE Ret(q.ctx, IF q.ret # None THEN SavedText ELSE TroubleText,
                          <<Call("create_lead", <<>>, r.ret),
                            Call("create_lead", <<>>, q.ret)>>)
                 : q \in create_lead(r.ctx, w)}
           : r \in create_lead(c, w)}

HandleInfoComplete(m, c, history, w) ==
    {IF r.raised THEN Raise(r.ctx, <<Throw("create_lead", <<>>)>>)
     ELSE IF r.ret # None
     THEN Ret(r.ctx, SavedText, <<Call("create_lead", <<>>, r.ret)>>)
     ELSE Ret(r.ctx, TroubleText, <<Call("create_lead", <<>>, r.ret)>>)
     : r \in create_lead(c, w)}

IsAffirmative_Verbatim(m) == m \in Affirmatives

\* message.strip().lower() in [...] (line 131)
IsAffirmative(m) == lower(strip(m)) \in Affirmatives

HandleAwaitingMeetingConfirmation_ClearsLead(m, c, history, w) ==
    IF IsAffirmative(m)
    THEN {IF r.raised THEN Raise(r.ctx, <<Throw("get_slots", <<>>)>>)
          ELSE IF r.ret # <<>>
          THEN Ret(Ctx(WAITING_MEETING_SLOT_SELECTION, r.ctx.partial, r.ctx.lead_id,
                       r.ctx.slots),
                   SlotsText(format_slots(r.ret)), <<Call("get_slots", <<>>, r.ret)>>)
          ELSE Ret(Ctx(NO_INTEREST, r.ctx.partial, None, r.ctx.slots),
                   NoSlotsText, <<Call("get_slots", <<>>, r.ret)>>)
          : r \in get_slots(c, w)}
    ELSE {Ret(Ctx(NO_INTEREST, c.partial, None, c.slots), DeclinedText, <<>>)}

HandleAwaitingMeetingConfirmation_NoSlotCheck(m, c, history, w) ==
    IF IsAffirmative(m)
    THEN {IF r.raised THEN Raise(r.ctx, <<Throw("get_slots", <<>>)>>)
          ELSE Ret(Ctx(WAITING_MEETING_SLOT_SELECTION, r.ctx.partial, r.ctx.lead_id,
                       r.ctx.slots),
                   SlotsText(format_slots(r.ret)), <<Call("get_slots", <<>>, r.ret)>>)
          : r \in get_slots(c, w)}
    ELSE {Ret(Ctx(NO_INTEREST, c.partial, c.lead_id, c.slots), DeclinedText, <<>>)}

HandleAwaitingMeetingConfirmation(m, c, history, w) ==
    IF IsAffirmative(m)
    THEN {IF r.raised THEN Raise(r.ctx, <<Throw("get_slots", <<>>)>>)
          ELSE IF r.ret # <<>>
          THEN Ret(Ctx(WAITING_MEETING_SLOT_SELECTION, r.ctx.partial, r.ctx.lead_id,
                       r.ctx.slots),
                   SlotsText(format_slots(r.ret)), <<Call("get_slots", <<>>, r.ret)>>)
          ELSE Ret(Ctx(NO_INTEREST, r.ctx.partial, r.ctx.lead_id, r.ctx.slots),
                   NoSlotsText, <<Call("get_slots", <<>>, r.ret)>>)
          : r \in get_slots(c, w)}
    ELSE {Ret(Ctx(NO_INTEREST, c.partial, c.lead_id, c.slots), DeclinedText, <<>>)}

SlotOffered_AnyTime(slot, c) == c.lead_id # None

\* slot in available_slots and current_lead_id (line 144)
SlotOffered(slot, c) ==
    (\E i \in 1..Len(c.slots) : c.slots[i] = slot) /\ c.lead_id # None

HandleWaitingMeetingSlotSelection_KeepsLead(m, c, history, w) ==
    LET slot == _normalize_time(m) IN
    IF SlotOffered(slot, c)
    THEN {IF r.raised THEN Raise(c, <<Throw("schedule", <<The(c.lead_id), slot>>)>>)
          ELSE Ret(Ctx(NO_INTEREST, c.partial, IF r.ret THEN None ELSE c.lead_id, <<>>),
                   IF r.ret THEN ScheduledText(slot) ELSE ScheduleFailedText(slot),
                   <<Call("schedule", <<The(c.lead_id), slot>>, r.ret)>>)
          : r \in schedule(The(c.lead_id), slot, w)}
    ELSE {Ret(c, InvalidTimeText(m, c.slots), <<>>)}

HandleWaitingMeetingSlotSelection(m, c, history, w) ==
    LET slot == _normalize_time(m) IN
    IF SlotOffered(slot, c)
    THEN {IF r.raised THEN Raise(c, <<Throw("schedule", <<The(c.lead_id), slot>>)>>)
          ELSE Ret(Ctx(NO_INTEREST, c.partial, None, <<>>),
                   IF r.ret THEN ScheduledText(slot) ELSE ScheduleFailedText(slot),
                   <<Call("schedule", <<The(c.lead_id), slot>>, r.ret)>>)
          : r \in schedule(The(c.lead_id), slot, w)}
    ELSE {Ret(c, InvalidTimeText(m, c.slots), <<>>)}

Handle(m, c, history, w) ==
    IF c.lead_state = NO_INTEREST THEN HandleNoInterest(m, c, history, w)
    ELSE IF c.lead_state = INTEREST_DETECTED THEN HandleInterestDetected(m, c, history, w)
    ELSE IF c.lead_state = COLLECTING_INFO THEN HandleCollectingInfo(m, c, history, w)
    ELSE IF c.lead_state = INFO_COMPLETE THEN HandleInfoComplete(m, c, history, w)
    ELSE IF c.lead_state = AWAITING_MEETING_CONFIRMATION
         THEN HandleAwaitingMeetingConfirmation(m, c, history, w)
    ELSE IF c.lead_state = WAITING_MEETING_SLOT_SELECTION
         THEN HandleWaitingMeetingSlotSelection(m, c, history, w)
    ELSE {Ret(c, "", <<>>)}

HumanTurn(m) == "Human: " \o m

AssistantTurn(resp) == "Assistant: " \o resp

Truncate_Oldest(history) ==
    IF Len(history) <= HistoryCap THEN history ELSE SubSeq(history, 1, HistoryCap)

\* self.conversation_history[-30:] (line 156)
Truncate(history) == LastN(history, HistoryCap)

LeadInfo_Always(partial) == Some(partial)

LeadInfo(partial) == IF DOMAIN partial # {} THEN Some(partial) ELSE None

ResultOf(resp, c) ==
    [response |-> resp, lead_info |-> LeadInfo(c.partial), lead_state |-> c.lead_state]

process(m) ==
    \E u \in update_state(lead_state, partial_lead_info, world) :
        LET history == Append(conversation_history, HumanTurn(m))
            c == Ctx(u.lead_state, u.partial, current_lead_id, available_slots)
        IN  \E h \in Handle(m, c, history, world) :
                /\ message' = m
                /\ state' = c.lead_state
                /\ entry' = c
                /\ response' = h.response
                /\ trace' = h.trace
                /\ tool' = h.tool
                /\ lead_state' = h.ctx.lead_state
                /\ partial_lead_info' = h.ctx.partial
                /\ current_lead_id' = h.ctx.lead_id
                /\ available_slots' = h.ctx.slots
                /\ IF h.raised
                   THEN /\ outcome' = "raised"
                        /\ conversation_history' = history
                        /\ result' = None
                   ELSE /\ outcome' = "returned"
                        /\ conversation_history' =
                               Truncate(Append(history, AssistantTurn(h.response)))
                        /\ result' = Some(ResultOf(h.response, h.ctx))

(***************************************************************************)
(* A session: SalesRAGAgent.__init__, then one process call per message    *)
(* the user submits (app.py).                                              *)
(***************************************************************************)
Init ==
    /\ world \in Worlds
    /\ calls_left = world.calls
    /\ lead_state = NO_INTEREST
    /\ partial_lead_info = <<>>
    /\ current_lead_id = None
    /\ available_slots = <<>>
    /\ conversation_history = <<>>
    /\ outcome = "idle"
    /\ message = ""
    /\ state = NO_INTEREST
    /\ entry = Ctx(NO_INTEREST, <<>>, None, <<>>)
    /\ tool = ""
    /\ response = ""
    /\ result = None
    /\ trace = <<>>
    /\ agents = <<>>
    /\ properties = "present"
    /\ autocommit = TRUE
    /\ actor = ""

Submit ==
    /\ calls_left > 0
    /\ \E user_input \in world.msgs :
           /\ strip(user_input) # ""
           /\ process(user_input)
    /\ calls_left' = calls_left - 1
    /\ UNCHANGED world
    /\ UNCHANGED shared_vars

Next == Submit

Spec == Init /\ [][Next]_vars

(***************************************************************************)
(* Several browser sessions of one Streamlit server.  Each session runs    *)
(* app.py in a thread of its own and keeps its own SalesRAGAgent in        *)
(* st.session_state; all of them use the one file data/properties.db.      *)
(* Constructing an agent runs the data pipeline: DROP TABLE IF EXISTS      *)
(* properties on one connection, then DataFrame.to_sql, which creates the  *)
(* table and fails when it exists; then SQLAgentTool reads the table.      *)
(* The DROP is never committed by the code: SQLAlchemy 1.x commits it on   *)
(* its own, SQLAlchemy 2.x rolls it back when the connection is closed.    *)
(* A construction that raised is tried again by the session's next run.    *)
(***************************************************************************)
Sessions == {"A", "B"}

NewAgent ==
    [pc |-> "new", lead_state |-> NO_INTEREST, partial |-> <<>>, lead_id |-> None,
     slots |-> <<>>, history |-> <<>>, calls |-> ShareCalls, result |-> None,
     sql |-> None]

SharedInit ==
    /\ world = ShareWorld
    /\ calls_left = 0
    /\ lead_state = NO_INTEREST
    /\ partial_lead_info = <<>>
    /\ current_lead_id = None
    /\ available_slots = <<>>
    /\ conversation_history = <<>>
    /\ outcome = "idle"
    /\ message = ""
    /\ state = NO_INTEREST
    /\ entry = Ctx(NO_INTEREST, <<>>, None, <<>>)
    /\ tool = ""
    /\ response = ""
    /\ result = None
    /\ trace = <<>>
    /\ agents = [s \in Sessions |-> NewAgent]
    /\ properties \in {"absent", "present"}
    /\ autocommit \in BOOLEAN
    /\ actor = ""

Step(s, pc) ==
    /\ agents' = [agents EXCEPT ![s].pc = pc]
    /\ actor' = s
    /\ UNCHANGED <<autocommit, session_vars>>

\* __init__ up to the DROP statement of ingest_to_sqlite.
DropTable(s) ==
    /\ agents[s].pc \in {"new", "failed"}
    /\ properties' = IF autocommit THEN "absent" ELSE properties
    /\ Step(s, "dropped")

\* df.to_sql(TABLE_NAME, engine, index=False)
BuildTable(s) ==
    /\ agents[s].pc = "dropped"
    /\ IF properties = "present"
       THEN UNCHANGED properties /\ Step(s, "failed")
       ELSE properties' = "present" /\ Step(s, "built")

\* SQLAgentTool(db_path, ...): _setup selects the areas from properties.
SetupSqlAgent(s) ==
    /\ agents[s].pc = "built"
    /\ UNCHANGED properties
    /\ Step(s, IF properties = "present" THEN "ready" ELSE "failed")

QueryResults(tr) ==
    {tr[i].ret : i \in {j \in 1..Len(tr) : tr[j].op = "sql_agent_tool.query"}}

\* The session's agent after process ended as h.
Processed(a, history, h) ==
    [pc |-> "ready",
     lead_state |-> h.ctx.lead_state, partial |-> h.ctx.partial,
     lead_id |-> h.ctx.lead_id, slots |-> h.ctx.slots,
     history |-> IF h.raised THEN history
                 ELSE Truncate(Append(history, AssistantTurn(h.response))),
     calls |-> a.calls - 1,
     result |-> IF h.raised THEN None ELSE Some(ResultOf(h.response, h.ctx)),
     sql |-> QueryResults(h.trace)]

\* One message of session s: process, its SQL reading the table as it is now.
SessionProcess(s) ==
    LET a == agents[s]
        env == [world EXCEPT !.table = properties]
    IN  /\ a.pc = "ready"
        /\ a.calls > 0
        /\ \E user_input \in env.msgs :
               /\ strip(user_input) # ""
               /\ \E u \in update_state(a.lead_state, a.partial, env) :
                      LET history == Append(a.history, HumanTurn(user_input))
                          c == Ctx(u.lead_state, u.partial, a.lead_id, a.slots)
                      IN  \E h \in Handle(user_input, c, history, env) :
                              agents' = [agents EXCEPT ![s] = Processed(a, history, h)]
        /\ actor' = s
        /\ UNCHANGED <<properties, autocommit, session_vars>>

SharedNext ==
    \E s \in Sessions :
        \/ DropTable(s)
        \/ BuildTable(s)
        \/ SetupSqlAgent(s)
        \/ SessionProcess(s)

SharedSpec == SharedInit /\ [][SharedNext]_vars

(***************************************************************************)
(* Reading the latest process call.                                        *)
(***************************************************************************)
Called == outcome # "idle"

Returned == outcome = "returned"

CallsOf(op) == {i \in 1..Len(trace) : trace[i].op = op}

NeverCalled(op) == CallsOf(op) = {}

TheCall(op) == trace[The(CallsOf(op))]

Returns(resp) == Returned /\ response = resp /\ The(result).response = resp

(***************************************************************************)
(* Claims.                                                                 *)
(***************************************************************************)

\* C1: whenever a collaborator invoked during process fails by throwing,
\* process still returns normally with an apologetic response, the lead state
\* is the one before the failing step or NO_INTEREST, and no fault reaches the
\* caller of process.
C1_FaultsBecomeApologies ==
    (Called /\ \E i \in 1..Len(trace) : trace[i].raised)
        => /\ Returned
           /\ In("Sorry", response)
           /\ lead_state \in {state, NO_INTEREST}

\* C2: in NO_INTEREST with the classifier answering sql, the response is the
\* structured-query collaborator's text unchanged, neither the document-answer
\* collaborator nor the small-talk fallback is invoked, and the lead state is
\* still NO_INTEREST after the call.
C2_SqlVerbatim ==
    (Called /\ state = NO_INTEREST /\ tool = "sql")
        => /\ Cardinality(CallsOf("sql_agent_tool.query")) = 1
           /\ TheCall("sql_agent_tool.query").arg = message
           /\ Returns(TheCall("sql_agent_tool.query").ret)
           /\ NeverCalled("pdf_qa_tool.answer")
           /\ NeverCalled("process/llm.invoke")
           /\ lead_state = NO_INTEREST

C2_Witness ==
    /\ Returned /\ state = NO_INTEREST /\ tool = "sql"
    /\ message = "what studios are available in Business Bay under 1M?"
    /\ response = SqlAnswer

\* C3: in NO_INTEREST with the classifier answering rag, the document-answer
\* collaborator is invoked exactly once; the small-talk fallback is invoked if
\* and only if the document answer contains the out-of-domain sentinel, and
\* then the response is the fallback's text, otherwise the document answer
\* unchanged; the structured-query collaborator is not invoked.
C3_RagFallback ==
    (Called /\ state = NO_INTEREST /\ tool = "rag")
        => /\ Cardinality(CallsOf("pdf_qa_tool.answer")) = 1
           /\ NeverCalled("sql_agent_tool.query")
           /\ Cardinality(CallsOf("process/llm.invoke")) <= 1
           /\ LET doc == TheCall("pdf_qa_tool.answer")
                  fallback == ~NeverCalled("process/llm.invoke")
              IN  ~doc.raised =>
                      /\ fallback <=> In(Sentinel, doc.ret)
                      /\ Returned =>
                             Returns(IF fallback THEN TheCall("process/llm.invoke").ret
                                     ELSE doc.ret)
                      /\ ~fallback => Returned

C3_Witness ==
    /\ Returned /\ state = NO_INTEREST /\ tool = "rag"
    /\ TheCall("pdf_qa_tool.answer").ret = OutOfDomainAnswer
    /\ ~NeverCalled("process/llm.invoke")
    /\ response = ChatAnswer

\* C4: in INFO_COMPLETE, when create_lead returns no id, the response is the
\* trouble-saving apology inviting a retry, the lead state is still
\* INFO_COMPLETE after the call, and CurrentLeadId, AvailableSlots and
\* PartialLeadInfo are as the handler found them.
C4_CreateLeadFailure ==
    (Called /\ state = INFO_COMPLETE /\ ~NeverCalled("create_lead")
            /\ ~TheCall("create_lead").raised /\ TheCall("create_lead").ret = None)
        => /\ Returns("Sorry, I had trouble saving your information. Would you mind trying again?")
           /\ lead_state = INFO_COMPLETE
           /\ The(result).lead_state = INFO_COMPLETE
           /\ current_lead_id = entry.lead_id
           /\ available_slots = entry.slots
           /\ partial_lead_info = entry.partial

C4_Witness ==
    /\ Returned /\ state = INFO_COMPLETE
    /\ TheCall("create_lead").ret = None
    /\ response = TroubleText
    /\ lead_state = INFO_COMPLETE
    /\ DOMAIN partial_lead_info = FieldSet

\* What C5 requires of a call that created a lead.
C5_Saved ==
    (Called /\ state = INFO_COMPLETE /\ ~NeverCalled("create_lead")
            /\ ~TheCall("create_lead").raised /\ TheCall("create_lead").ret # None)
        => /\ Returns("Great! I've saved your information.\nDo you want to schedule a meeting with our team? (Yes/No)")
           /\ current_lead_id = TheCall("create_lead").ret
           /\ lead_state = AWAITING_MEETING_CONFIRMATION
           /\ The(result).lead_state = AWAITING_MEETING_CONFIRMATION

\* C5: in INFO_COMPLETE, when create_lead returns an id, the response is the
\* save confirmation followed by the yes/no meeting question, CurrentLeadId
\* holds the created id and the lead state after the call is
\* AWAITING_MEETING_CONFIRMATION, so that the next message is handled as the
\* answer to the meeting question.
C5_LeadSaved ==
    [][/\ C5_Saved'
       /\ (state = INFO_COMPLETE /\ Returned /\ response = SavedText)
              => state' = AWAITING_MEETING_CONFIRMATION]_vars

C5_Witness ==
    /\ Returned /\ state = INFO_COMPLETE
    /\ response = SavedText
    /\ current_lead_id = Some("L1")
    /\ lead_state = AWAITING_MEETING_CONFIRMATION

C6_Tokens ==
    {"yes", "yeah", "y", "sure", "please", "schedule", "schedule meeting",
     "schedul", "scedul", "shedule", "sedul"}

C7_SlotChosen ==
    (Called /\ state = WAITING_MEETING_SLOT_SELECTION
            /\ entry.lead_id # None
            /\ \E i \in 1..Len(entry.slots) : entry.slots[i] = _normalize_time(message))
        => /\ Cardinality(CallsOf("schedule")) = 1
           /\ TheCall("schedule").arg = <<The(entry.lead_id), _normalize_time(message)>>
           /\ ~TheCall("schedule").raised =>
                  /\ Returned
                  /\ lead_state = NO_INTEREST
                  /\ The(result).lead_state = NO_INTEREST
                  /\ available_slots = <<>>
                  /\ current_lead_id = None
                  /\ TheCall("schedule").ret
                         => In("scheduled at " \o _normalize_time(message), response)
                  /\ ~TheCall("schedule").ret
                         => In("Something went wrong", response)

C7_Witness ==
    /\ Returned /\ state = WAITING_MEETING_SLOT_SELECTION
    /\ message = "9"
    /\ entry.slots = <<"09:00", "10:00">>
    /\ TheCall("schedule").arg = <<"L1", "09:00">>
    /\ ~TheCall("schedule").ret
    /\ lead_state = NO_INTEREST /\ available_slots = <<>> /\ current_lead_id = None

\* C8: in WAITING_MEETING_SLOT_SELECTION, for a message whose normalized form
\* is not one of the offered slots, schedule is not called, the response
\* re-prompts with exactly the offered slots, and the lead state,
\* AvailableSlots and CurrentLeadId are unchanged.
C8_SlotRejected ==
    (Called /\ state = WAITING_MEETING_SLOT_SELECTION
            /\ \A i \in 1..Len(entry.slots) : entry.slots[i] # _normalize_time(message))
        => /\ NeverCalled("schedule")
           /\ Returns("[!] '" \o message \o "' is not a valid time. Please choose from: "
                      \o join(", ", entry.slots))
           /\ lead_state = WAITING_MEETING_SLOT_SELECTION
           /\ The(result).lead_state = WAITING_MEETING_SLOT_SELECTION
           /\ available_slots = entry.slots
           /\ current_lead_id = entry.lead_id

C8_Witness ==
    /\ Returned /\ state = WAITING_MEETING_SLOT_SELECTION
    /\ message = "no"
    /\ response = "[!] 'no' is not a valid time. Please choose from: 09:00, 10:00"
    /\ lead_state = WAITING_MEETING_SLOT_SELECTION
    /\ available_slots = <<"09:00", "10:00">>
    /\ current_lead_id = Some("L1")

\* C9: after every process call that returns, ConversationHistory has at most
\* 30 entries, its last entry is the assistant turn carrying exactly the
\* response returned by that call, the entry before it is the human turn
\* carrying that call's message, and the entries kept are the most recent
\* ones, in order (eviction only from the front).
C9_HistoryWindow ==
    [][Returned' =>
          LET full == conversation_history
                          \o <<"Human: " \o message',
                               "Assistant: " \o The(result').response>>
              kept == conversation_history'
              n    == Len(kept)
          IN  /\ n <= 30
              /\ n >= 2
              /\ kept[n] = "Assistant: " \o The(result').response
              /\ kept[n - 1] = "Human: " \o message'
              /\ n = IF Len(full) <= 30 THEN Len(full) ELSE 30
              /\ \A i \in 1..n : kept[i] = full[Len(full) - n + i]]_vars

C9_Witness ==
    /\ Returned
    /\ Len(conversation_history) = 30
    /\ 2 * (world.calls - calls_left) > 30
    /\ conversation_history[30] = "Assistant: " \o response
    /\ conversation_history[29] = "Human: " \o message

C10_WordChars ==
    {Char(UpperAlpha, i) : i \in 1..26} \cup {Char(LowerAlpha, i) : i \in 1..26}
        \cup Digits \cup {"_", ".", "-"}

C10_HasDigitRun(msg) ==
    \E i \in 1..(Len(msg) - 9) : \A j \in i..(i + 9) : Char(msg, j) \in Digits

C10_HasEmailToken(msg) ==
    \E i \in 2..(Len(msg) - 1) :
        /\ Char(msg, i) = "@"
        /\ Char(msg, i - 1) \in C10_WordChars
        /\ Char(msg, i + 1) \in C10_WordChars

\* C10: the Contact-Info Detector returns true for every message that contains
\* a run of 10 or more digits and for every message that contains an
\* email-like token, even when the message contains none of the
\* name-introduction phrases.
C10_DetectsPhoneAndEmail ==
    (Called /\ state \in {INTEREST_DETECTED, COLLECTING_INFO}
            /\ (C10_HasDigitRun(message) \/ C10_HasEmailToken(message)))
        => is_contact_info(message)

C11_Phrases == {"name is", "i am", "i'm", "this is"}

C11_HasPhrase(msg) == \E kw \in C11_Phrases : In(kw, lower(msg))

\* The session state is what the call found: no collaborator ran and nothing
\* of the lead or meeting state moved.
C11_Untouched ==
    /\ trace = <<>>
    /\ Ctx(lead_state, partial_lead_info, current_lead_id, available_slots) = entry

\* C11: the Contact-Info Detector returns true for every message that contains,
\* case-insensitively, one of "name is", "i am", "i'm", "this is"; it returns
\* false for a message with none of these phrases, no run of 10 or more digits
\* and no email-like token (such as "I like blue"); and it makes no external
\* call and changes no session state.
C11_DetectsNamePhrases ==
    (Called /\ state \in {INTEREST_DETECTED, COLLECTING_INFO}) =>
        /\ C11_HasPhrase(message) => is_contact_info(message)
        /\ (~C11_HasPhrase(message) /\ ~C10_HasDigitRun(message)
                /\ ~C10_HasEmailToken(message)) => ~is_contact_info(message)
        /\ is_contact_info(message) => C11_Untouched

\* The required fields the lead still lacks after update_state, in the order
\* name, phone, email.
C12_Missing ==
    (IF "name" \in DOMAIN entry.partial THEN <<>> ELSE <<"name">>)
        \o (IF "phone" \in DOMAIN entry.partial THEN <<>> ELSE <<"phone">>)
        \o (IF "email" \in DOMAIN entry.partial THEN <<>> ELSE <<"email">>)

C12_Sentence ==
    CASE Len(C12_Missing) = 0 -> "Thanks!"
      [] Len(C12_Missing) = 1 ->
            "Just need your " \o C12_Missing[1] \o " to get started."
      [] Len(C12_Missing) = 2 ->
            "Just need your " \o C12_Missing[1] \o ", " \o C12_Missing[2]
                \o " to get started."
      [] OTHER -> "Just need your name, phone, email to get started."

C12_ContactCall ==
    Called /\ state \in {INTEREST_DETECTED, COLLECTING_INFO} /\ is_contact_info(message)

\* C12: when process handles a contact-info message in INTEREST_DETECTED or
\* COLLECTING_INFO, the document-answer collaborator is not invoked and the
\* response is decided by the required fields missing after update_state alone:
\* "Thanks!" when none is missing, "Just need your <field> to get started."
\* when one is, and the same sentence with the fields joined by ", " in the
\* order name, phone, email when two or more are.
C12_ContactReply ==
    C12_ContactCall =>
        NeverCalled("pdf_qa_tool.answer") /\ Returns(C12_Sentence)

C12_Witness ==
    /\ C12_ContactCall
    /\ C12_Missing = <<"name", "email">>
    /\ Returns("Just need your name, email to get started.")

C13_AllDigits(t) == Len(t) > 0 /\ \A i \in 1..Len(t) : Char(t, i) \in Digits

C13_Pad(t) == IF Len(t) = 1 THEN "0" \o t ELSE t

C13_Colons(t) == {i \in 1..Len(t) : Char(t, i) = ":"}

\* What the claim says the cleaned token t is mapped to.
C13_Mapped(t) ==
    IF C13_AllDigits(t)
    THEN CASE Len(t) <= 2 -> C13_Pad(t) \o ":00"
           [] Len(t) = 3 -> "0" \o Char(t, 1) \o ":" \o Char(t, 2) \o Char(t, 3)
           [] Len(t) = 4 -> Char(t, 1) \o Char(t, 2) \o ":" \o Char(t, 3) \o Char(t, 4)
           [] OTHER -> t
    ELSE IF Cardinality(C13_Colons(t)) = 1
    THEN LET k == The(C13_Colons(t))
             hours == Slice(t, 1, k - 1)
             minutes == Slice(t, k + 1, Len(t))
         IN  IF C13_AllDigits(hours) /\ C13_AllDigits(minutes)
             THEN C13_Pad(hours) \o ":" \o C13_Pad(minutes)
             ELSE t
    ELSE t

C13_Examples ==
    /\ _normalize_time("9") = "09:00"
    /\ _normalize_time("930") = "09:30"
    /\ _normalize_time("14:5") = "14:05"
    /\ _normalize_time("09:30") = "09:30"

C13_SlotCall == Called /\ state = WAITING_MEETING_SLOT_SELECTION

C13_Mapping ==
    C13_Examples /\ _normalize_time(message) = C13_Mapped(CleanTime(message))

C13_Idempotent ==
    _normalize_time(_normalize_time(message)) = _normalize_time(message)

C13_Trimmed(t) ==
    t = "" \/ (Char(t, 1) \notin Whitespace /\ Char(t, Len(t)) \notin Whitespace)

\* C13 (as stated): the Time Normalizer maps the cleaned token as listed (1-2
\* digits to the zero-padded hour and ":00", 3 digits to "0" + first digit +
\* ":" + last two, 4 digits to first two + ":" + last two, two numeric parts
\* around one ":" to both parts zero-padded, any other token to itself), and
\* normalizing any output of the normalizer returns it unchanged.
C13_NormalizesIdempotently ==
    C13_SlotCall => (C13_Mapping /\ C13_Idempotent)

\* C13 (amended): the same mapping; normalizing an output returns it unchanged
\* whenever the output neither begins nor ends with whitespace, in particular
\* for every canonical "HH:MM" token.
C13_NormalizesTrimmedIdempotently ==
    C13_SlotCall =>
        /\ C13_Mapping
        /\ C13_Trimmed(_normalize_time(message)) => C13_Idempotent

C13_Witness ==
    /\ C13_SlotCall
    /\ message = "14:5"
    /\ _normalize_time(message) = "14:05"
    /\ _normalize_time("14:05") = "14:05"
    /\ Returns(ScheduledText("14:05"))

C14_NamesSql(raw) ==
    \E i \in 1..(Len(raw) - 2) :
        /\ Char(raw, i) \in {"s", "S"}
        /\ Char(raw, i + 1) \in {"q", "Q"}
        /\ Char(raw, i + 2) \in {"l", "L"}

C14_Answered ==
    /\ Called
    /\ ~NeverCalled("_decide_tool/llm.invoke")
    /\ ~TheCall("_decide_tool/llm.invoke").raised

\* C14: the Intent Classifier returns sql if and only if the raw answer of the
\* reasoning capability, trimmed and lower-cased, contains "sql" anywhere (so
\* an answer naming both tools yields sql); it returns rag for every other
\* answer, the empty one included, and never a third value.
C14_SqlIffNamed ==
    C14_Answered =>
        /\ tool \in {"sql", "rag"}
        /\ tool = "sql" <=> C14_NamesSql(TheCall("_decide_tool/llm.invoke").ret)

C14_Witness ==
    /\ C14_Answered
    /\ TheCall("_decide_tool/llm.invoke").ret = "rag or sql"
    /\ tool = "sql"
    /\ ~NeverCalled("sql_agent_tool.query")

C15_Labels ==
    {"NO_INTEREST", "INTEREST_DETECTED", "COLLECTING_INFO", "INFO_COMPLETE",
     "AWAITING_MEETING_CONFIRMATION", "WAITING_MEETING_SLOT_SELECTION"}

C15_NoFailure == \A i \in 1..Len(trace) : ~trace[i].raised

\* C15: in every reachable session state and for every text message, when no
\* collaborator fails, process returns a result holding a response text, the
\* lead info (null exactly when the partial lead info is empty) and a lead
\* state label that is one of the six LeadState values and is the session's
\* lead state at the end of that call, not the state the handler branched on.
C15_ResultShape ==
    (Called /\ C15_NoFailure) =>
        /\ Returned
        /\ result # None
        /\ The(result).response = response
        /\ The(result).lead_info = None <=> DOMAIN partial_lead_info = {}
        /\ The(result).lead_info # None =>
               The(The(result).lead_info) = partial_lead_info
        /\ The(result).lead_state \in C15_Labels
        /\ The(result).lead_state = lead_state

C15_Witness ==
    /\ Called /\ C15_NoFailure
    /\ state = INFO_COMPLETE
    /\ The(result).lead_state = AWAITING_MEETING_CONFIRMATION
    /\ The(result).lead_info = None
    /\ The(result).response = SavedText

C16_NormalizesToOffer ==
    \E i \in 1..Len(entry.slots) : entry.slots[i] = _normalize_time(message)

\* C16: in every state reachable by process calls from a fresh session, a lead
\* state of WAITING_MEETING_SLOT_SELECTION comes with a non-empty list of
\* available slots and a current lead id, so a message that normalizes to an
\* offered slot is never answered with the "not a valid time" re-prompt.
C16_SlotSelectionReady ==
    /\ lead_state = WAITING_MEETING_SLOT_SELECTION =>
           (available_slots # <<>> /\ current_lead_id # None)
    /\ (Called /\ state = WAITING_MEETING_SLOT_SELECTION /\ C16_NormalizesToOffer) =>
           /\ response # InvalidTimeText(message, entry.slots)
           /\ ~NeverCalled("schedule")

C16_Witness ==
    /\ Called
    /\ state = AWAITING_MEETING_CONFIRMATION
    /\ lead_state = WAITING_MEETING_SLOT_SELECTION
    /\ available_slots = SlotOffer
    /\ current_lead_id = Some("L1")

C17_BackToNoInterest(from) ==
    Called /\ state = from /\ lead_state = NO_INTEREST

\* C17 (as stated): whenever a process call takes the session from
\* AWAITING_MEETING_CONFIRMATION or WAITING_MEETING_SLOT_SELECTION back to
\* NO_INTEREST, the current lead id is absent and the available slots are
\* empty after that call.
C17_FlowEndClearsLead ==
    (C17_BackToNoInterest(AWAITING_MEETING_CONFIRMATION)
        \/ C17_BackToNoInterest(WAITING_MEETING_SLOT_SELECTION)) =>
        (current_lead_id = None /\ available_slots = <<>>)

\* C17 (amended): a call that takes the session from
\* WAITING_MEETING_SLOT_SELECTION back to NO_INTEREST leaves no lead id and no
\* slots; a call that takes it from AWAITING_MEETING_CONFIRMATION back to
\* NO_INTEREST (decline, or no slots) leaves no slots but keeps the lead id of
\* the created lead.
C17_SchedulingClearsLead ==
    /\ C17_BackToNoInterest(WAITING_MEETING_SLOT_SELECTION) =>
           (current_lead_id = None /\ available_slots = <<>>)
    /\ C17_BackToNoInterest(AWAITING_MEETING_CONFIRMATION) =>
           /\ available_slots = <<>>
           /\ current_lead_id = entry.lead_id
           /\ current_lead_id # None

C17_Witness ==
    /\ C17_BackToNoInterest(AWAITING_MEETING_CONFIRMATION)
    /\ Returns(DeclinedText)
    /\ current_lead_id = Some("L1")
    /\ available_slots = <<>>

C18_CallsNow(op) == {i \in 1..Len(trace') : trace'[i].op = op}

C18_Answered(op) == {i \in C18_CallsNow(op) : ~trace'[i].raised}

\* schedule is called in a slot-selection call, with a slot of the list the
\* session held before the call and with the lead id it held before the call.
C18_ScheduleArgs ==
    \A i \in C18_CallsNow("schedule") :
        /\ state' = WAITING_MEETING_SLOT_SELECTION
        /\ \E k \in 1..Len(available_slots) : available_slots[k] = trace'[i].arg[2]
        /\ current_lead_id = Some(trace'[i].arg[1])

\* The list the session holds is the one last fetched, or empty: a call
\* replaces it by what get_slots returned, clears it, or leaves it.
C18_SlotsLedger ==
    IF C18_Answered("get_slots") # {}
    THEN \A i \in C18_Answered("get_slots") : available_slots' = trace'[i].ret
    ELSE available_slots' \in {available_slots, <<>>}

\* The lead id the session holds is the one last created, or absent.
C18_LeadLedger ==
    IF \E i \in C18_Answered("create_lead") : trace'[i].ret # None
    THEN \A i \in C18_Answered("create_lead") : current_lead_id' = trace'[i].ret
    ELSE current_lead_id' \in {current_lead_id, None}

C18_Step ==
    /\ \A op \in {"schedule", "create_lead", "get_slots"} :
           Cardinality(C18_CallsNow(op)) <= 1
    /\ C18_ScheduleArgs
    /\ C18_SlotsLedger
    /\ C18_LeadLedger

\* C18: over any sequence of process calls, schedule is invoked only in a call
\* handled in WAITING_MEETING_SLOT_SELECTION, only with a slot of the list last
\* fetched from the meeting collaborator and with the lead id of the preceding
\* successful create_lead, and at most once per call; create_lead and the slot
\* fetch are invoked at most once per call too, never again after a failure.
C18_ScheduleDiscipline == [][C18_Step]_vars

C18_Witness ==
    /\ Called
    /\ state = WAITING_MEETING_SLOT_SELECTION
    /\ Cardinality(CallsOf("schedule")) = 1
    /\ TheCall("schedule").arg = <<"L3", "14:05">>
    /\ entry.lead_id = Some("L3")
    /\ entry.slots = <<"09:00", "09:30", "14:05">>

C19_Case == Called /\ state \in {INTEREST_DETECTED, COLLECTING_INFO}

\* The responses each of the two branches composes for the message, the lead
\* fields and the document answers of the call just made.
C19_InInterestDetected ==
    {h.response : h \in {x \in HandleInterestDetected(message, entry,
                                   conversation_history, world) : ~x.raised}}

C19_InCollectingInfo ==
    {h.response : h \in {x \in HandleCollectingInfo(message, entry,
                                   conversation_history, world) : ~x.raised}}

C19_MissingList ==
    CASE Len(C12_Missing) = 1 -> C12_Missing[1]
      [] Len(C12_Missing) = 2 -> C12_Missing[1] \o ", " \o C12_Missing[2]
      [] OTHER -> "name, phone, email"

C19_PromptCase == ~is_contact_info(message) /\ C12_Missing # <<>>

\* C19 (as stated): INTEREST_DETECTED and COLLECTING_INFO are handled
\* identically: for the same message, missing fields and document answer the
\* response composed in one equals the response composed in the other.
C19_HandledIdentically ==
    C19_Case => C19_InInterestDetected = C19_InCollectingInfo

\* C19 (amended): the two responses are equal for a contact-info message and
\* for another message when no field is missing; when a field is missing, the
\* document answer is followed by "Could you share your <fields>?" in
\* INTEREST_DETECTED and by "Just need your <fields> to get started." in
\* COLLECTING_INFO.
C19_HandledAlikeButPrompt ==
    C19_Case =>
        /\ Returned =>
               response \in (IF state = INTEREST_DETECTED THEN C19_InInterestDetected
                             ELSE C19_InCollectingInfo)
        /\ ~C19_PromptCase => C19_InInterestDetected = C19_InCollectingInfo
        /\ C19_PromptCase =>
               /\ C19_InInterestDetected =
                      {doc \o "\n\nCould you share your " \o C19_MissingList \o "?"
                       : doc \in world.docs}
               /\ C19_InCollectingInfo =
                      {doc \o "\n\nJust need your " \o C19_MissingList
                           \o " to get started." : doc \in world.docs}

C19_Witness ==
    /\ C19_Case /\ C19_PromptCase
    /\ state = COLLECTING_INFO
    /\ Returns(DocAnswer \o "\n\nJust need your name, email to get started.")
    /\ (DocAnswer \o "\n\nCould you share your name, email?") \in C19_InInterestDetected

C20_IsHuman(turn) == Slice(turn, 1, 7) = "Human: "

C20_IsAssistant(turn) == Slice(turn, 1, 11) = "Assistant: "

\* C20: after every process call, for any number of calls, the conversation
\* history strictly alternates human and assistant turns and begins with a
\* human turn, also once the 30-entry truncation has started evicting entries.
C20_HistoryAlternates ==
    Called =>
        \A i \in 1..Len(conversation_history) :
            IF i % 2 = 1 THEN C20_IsHuman(conversation_history[i])
            ELSE C20_IsAssistant(conversation_history[i])

\* What a session keeps of a conversation.
C21_Private(a) == <<a.lead_state, a.partial, a.lead_id, a.slots, a.history>>

\* A step of one session leaves what the other sessions keep as it was.
C21_Isolated ==
    \A s \in Sessions :
        s # actor' => C21_Private(agents'[s]) = C21_Private(agents[s])

\* What a process call got from the structured-query collaborator is the
\* answer made from the rebuilt table, the one a session on its own gets.
C21_QueryUnbroken ==
    \A s \in Sessions : agents[s].sql \subseteq {SqlAnswer}

\* C21: independent sessions proceed in parallel without interference:
\* starting a session (which drops and rebuilds the shared properties table)
\* or running process in one session never changes the lead state, lead info,
\* slots or history of another session, and never changes or breaks the result
\* another session's concurrent process call obtains from the
\* structured-query collaborator.
C21_NoInterference == [][C21_Isolated]_vars /\ []C21_QueryUnbroken

====
